---- MODULE Spec2Model ----
(***************************************************************************)
(* EncoderDecoderModel (pygan.generativemodel.encoder_decoder_model): the  *)
(* generator adapter around an encoder/decoder controller.                 *)
(*                                                                         *)
(* Tensors are sequences of sequences of sequences, indexed                *)
(* [batch][sequence position][feature], 1-based: numpy's arr[i, seq] is    *)
(* arr[i + 1][seq + 1] here and arr.shape is <<Len(arr), Len(arr[1]),      *)
(* Len(arr[1][1])>>.  Raw values are integers (the floats x.0).  Numbers   *)
(* computed by the normalisations are exact:                               *)
(*   a quotient is the reduced pair <<p, q>> with q > 0, <<0, 0>> being    *)
(*   nan (0.0 / 0.0) and <<1, 0>>, <<-1, 0>> being inf, -inf;              *)
(*   a z-score is [c |-> quotient, v |-> quotient], the number             *)
(*   c / sqrt(v), nan when c and v are both zero;                          *)
(*   a tanh is [exact |-> TRUE, val |-> k] when the double is the integer  *)
(*   k, and [exact |-> FALSE, val |-> x] for the double nearest tanh(x),   *)
(*   which is then strictly between -1 and 1.                              *)
(***************************************************************************)
EXTENDS Integers, Sequences, FiniteSets, TLC

\* ----------------------------------------------------------------- bounds
MaxBatch == 2
MaxSeq == 2
MaxFeat == 3
MaxElems == 4
MaxCtorCalls == 2

\* ------------------------------------------------------ program constants
seq_len_default == 10
\* learning rates are counted in units of 1e-06: 1e-05 is 10
learning_rate_default == 10
\* optimize(..., 1)
optimize_epoch == 1
\* np.tanh on doubles returns exactly 1.0 (-1.0) from here on: the distance of
\* tanh(20) to 1 is 2 / (exp(40) + 1) < 2^-54, half the spacing of the doubles
\* below 1
TanhSaturation == 20

\* ------------------------------------------------------------- arithmetic
Abs(x) == IF x < 0 THEN -x ELSE x

Sign(x) == IF x < 0 THEN -1 ELSE IF x = 0 THEN 0 ELSE 1

RECURSIVE GCD(_, _)
GCD(a, b) == IF b = 0 THEN a ELSE GCD(b, a % b)

\* the quotient p / q of two integers, as floating point division gives it
\* for q = 0 (nan, inf, -inf)
Quot(p, q) ==
    IF q = 0 THEN <<Sign(p), 0>>
    ELSE LET g == GCD(Abs(p), Abs(q))
         IN  <<(Sign(q) * p) \div g, Abs(q) \div g>>

FromInt(x) == <<x, 1>>

QAdd(a, b) == Quot(a[1] * b[2] + b[1] * a[2], a[2] * b[2])

QSub(a, b) == Quot(a[1] * b[2] - b[1] * a[2], a[2] * b[2])

QMul(a, b) == Quot(a[1] * b[1], a[2] * b[2])

QDiv(a, b) == Quot(a[1] * b[2], a[2] * b[1])

RECURSIVE QSum(_, _)
QSum(v, k) == IF k = 0 THEN FromInt(0) ELSE QAdd(QSum(v, k - 1), v[k])

\* ndarray.mean() of a vector of quotients
QMean(v) == QDiv(QSum(v, Len(v)), FromInt(Len(v)))

\* ndarray.min() and ndarray.max() of a vector of integers
SliceMin(v) == CHOOSE x \in {v[k] : k \in 1..Len(v)} : \A j \in 1..Len(v) : x <= v[j]

SliceMax(v) == CHOOSE x \in {v[k] : k \in 1..Len(v)} : \A j \in 1..Len(v) : x >= v[j]

\* ------------------------------------------- the three normalisations
\* (v - v.mean()) / v.std() with the sample standard deviation (ddof = 1)
ZScoreSampleStd(v) ==
    LET x == [k \in 1..Len(v) |-> FromInt(v[k])]
        c == [k \in 1..Len(v) |-> QSub(x[k], QMean(x))]
        sq == [k \in 1..Len(v) |-> QMul(c[k], c[k])]
        var == QDiv(QSum(sq, Len(v)), FromInt(Len(v) - 1))
    IN  [k \in 1..Len(v) |-> [c |-> c[k], v |-> var]]

\* line 90: (arr[i, seq] - arr[i, seq].mean()) / arr[i, seq].std(); ndarray.std()
\* is sqrt(mean(abs(x - x.mean()) ** 2)), the population standard deviation
ZScore(v) ==
    LET x == [k \in 1..Len(v) |-> FromInt(v[k])]
        c == [k \in 1..Len(v) |-> QSub(x[k], QMean(x))]
        var == QMean([k \in 1..Len(v) |-> QMul(c[k], c[k])])
    IN  [k \in 1..Len(v) |-> [c |-> c[k], v |-> var]]

\* (v - v.min()) / v.max(): the range taken from zero
MinMaxByMax(v) ==
    [k \in 1..Len(v) |-> QDiv(FromInt(v[k] - SliceMin(v)), FromInt(SliceMax(v)))]

\* line 94: (arr[i, seq] - arr[i, seq].min()) / (arr[i, seq].max() - arr[i, seq].min())
MinMax(v) ==
    [k \in 1..Len(v) |->
        QDiv(FromInt(v[k] - SliceMin(v)), FromInt(SliceMax(v) - SliceMin(v)))]

\* np.tanh of one double
Tanh(x) ==
    IF x >= TanhSaturation THEN [exact |-> TRUE, val |-> 1]
    ELSE IF x <= -TanhSaturation THEN [exact |-> TRUE, val |-> -1]
    ELSE IF x = 0 THEN [exact |-> TRUE, val |-> 0]
    ELSE [exact |-> FALSE, val |-> x]

\* tanh of each value less its slice's minimum: a per-slice statistic
TanhArrPerSlice(arr) ==
    [i \in 1..Len(arr) |-> [seq \in 1..Len(arr[i]) |->
        [k \in 1..Len(arr[i][seq]) |-> Tanh(arr[i][seq][k] - SliceMin(arr[i][seq]))]]]

\* line 96: np.tanh(arr), element by element over the whole tensor
TanhArr(arr) ==
    [i \in 1..Len(arr) |-> [seq \in 1..Len(arr[i]) |->
        [k \in 1..Len(arr[i][seq]) |-> Tanh(arr[i][seq][k])]]]

\* the k-th pair (i, seq) of "for i in range(shape[0]): for seq in range(shape[1])"
LoopIndex(arr, k) == <<((k - 1) \div Len(arr[1])) + 1, ((k - 1) % Len(arr[1])) + 1>>

LoopCount(arr) == Len(arr) * Len(arr[1])

\* lines 88-90: the loop from its k-th iteration on, assigning in place
RECURSIVE ZScoreLoop(_, _)
ZScoreLoop(arr, k) ==
    IF k > LoopCount(arr) THEN arr
    ELSE LET i == LoopIndex(arr, k)[1]
             seq == LoopIndex(arr, k)[2]
         IN  ZScoreLoop([arr EXCEPT ![i][seq] = ZScore(arr[i][seq])], k + 1)

\* lines 92-94
RECURSIVE MinMaxLoop(_, _)
MinMaxLoop(arr, k) ==
    IF k > LoopCount(arr) THEN arr
    ELSE LET i == LoopIndex(arr, k)[1]
             seq == LoopIndex(arr, k)[2]
         IN  MinMaxLoop([arr EXCEPT ![i][seq] = MinMax(arr[i][seq])], k + 1)

\* arr.shape[2] >= 1
HasFeatureAxisAny(arr) == Len(arr[1][1]) >= 1

\* line 86: arr.shape[2] > 1
HasFeatureAxis(arr) == Len(arr[1][1]) > 1

\* draw with np.tanh(arr, out=arr): tanh written into the delegate's tensor
DrawBodyTanhInPlace(norm_mode, arr) ==
    IF HasFeatureAxis(arr) /\ norm_mode = "z_score"
    THEN [arr |-> ZScoreLoop(arr, 1), arr_form |-> "zscore",
          ret |-> ZScoreLoop(arr, 1), ret_form |-> "zscore", same |-> TRUE]
    ELSE IF HasFeatureAxis(arr) /\ norm_mode = "min_max"
    THEN [arr |-> MinMaxLoop(arr, 1), arr_form |-> "quotient",
          ret |-> MinMaxLoop(arr, 1), ret_form |-> "quotient", same |-> TRUE]
    ELSE IF HasFeatureAxis(arr) /\ norm_mode = "tanh"
    THEN [arr |-> TanhArr(arr), arr_form |-> "tanh",
          ret |-> TanhArr(arr), ret_form |-> "tanh", same |-> TRUE]
    ELSE [arr |-> arr, arr_form |-> "raw", ret |-> arr, ret_form |-> "raw", same |-> TRUE]

\* lines 86-98, from the tensor the delegate returned: the contents of that
\* tensor object afterwards (arr), the contents of the tensor returned (ret),
\* whether the two are one object (same), and the form in which the numbers of
\* each are written ("raw": integers, "quotient", "zscore", "tanh")
DrawBody(norm_mode, arr) ==
    IF HasFeatureAxis(arr) /\ norm_mode = "z_score"
    THEN [arr |-> ZScoreLoop(arr, 1), arr_form |-> "zscore",
          ret |-> ZScoreLoop(arr, 1), ret_form |-> "zscore", same |-> TRUE]
    ELSE IF HasFeatureAxis(arr) /\ norm_mode = "min_max"
    THEN [arr |-> MinMaxLoop(arr, 1), arr_form |-> "quotient",
          ret |-> MinMaxLoop(arr, 1), ret_form |-> "quotient", same |-> TRUE]
    ELSE IF HasFeatureAxis(arr) /\ norm_mode = "tanh"
    THEN [arr |-> arr, arr_form |-> "raw",
          ret |-> TanhArr(arr), ret_form |-> "tanh", same |-> FALSE]
    ELSE [arr |-> arr, arr_form |-> "raw", ret |-> arr, ret_form |-> "raw", same |-> TRUE]

\* ------------------------------------------------------------ collaborators
\* objects handed to the constructor: an EncoderDecoderController, an object
\* with inference, back_propagation and optimize that is no
\* EncoderDecoderController, and a plain object with none of the three
Delegates == {"EncoderDecoderController", "DuckController", "object"}

\* the capability set: inference, back_propagation, optimize
HasCapability(d) == d \in {"EncoderDecoderController", "DuckController"}

\* a constructor that accepts whatever it is given
IsInstanceUnchecked(d) == TRUE

\* line 67: isinstance(encoder_decoder_controller, EncoderDecoderController)
IsInstance(d) == d = "EncoderDecoderController"

\* a logger that is always at DEBUG
LevelAlwaysDebug(verbose_mode) == "DEBUG"

\* lines 58-63: the level given to the handler and to the logger
Level(verbose_mode) == IF verbose_mode = TRUE THEN "DEBUG" ELSE "ERROR"

\* lines 56-65: logging.getLogger("pydbm") after one more constructor call
LoggerAfter(lg, verbose_mode) ==
    [level |-> Level(verbose_mode),
     handlers |-> Append(lg.handlers, Level(verbose_mode))]

\* lines 70-75: the fields of a fresh instance; noise_sampler is the attribute
\* draw reads, attached by the caller afterwards
NewInstance(controller, seq_len, learning_rate, norm_mode, verbose_mode) ==
    [encoder_decoder_controller |-> controller,
     seq_len |-> seq_len,
     learning_rate |-> learning_rate,
     verbose_mode |-> verbose_mode,
     loss_list |-> <<>>,
     norm_mode |-> norm_mode,
     noise_sampler |-> FALSE]

\* the fields written by __init__
Config(s) ==
    <<s.encoder_decoder_controller, s.seq_len, s.learning_rate, s.verbose_mode,
      s.loss_list, s.norm_mode>>

\* ----------------------------------------------------------------- learn
\* grad_arr[:, 0]
FirstPosition(grad_arr) == [b \in 1..Len(grad_arr) |-> grad_arr[b][1]]

\* line 122: grad_arr[:, -1]
LastPosition(grad_arr) == [b \in 1..Len(grad_arr) |-> grad_arr[b][Len(grad_arr[b])]]

\* optimize given the encoder delta in place of the encoder gradients
OptimizeArgsDelta(bp_ret, learning_rate) ==
    <<bp_ret[1], bp_ret[2], learning_rate, optimize_epoch>>

\* lines 124-129: the arguments of optimize, from back_propagation's
\* (decoder_grads_list, encoder_delta_arr, encoder_grads_list)
OptimizeArgs(bp_ret, learning_rate) ==
    <<bp_ret[1], bp_ret[3], learning_rate, optimize_epoch>>

\* lines 121-129: the calls learn makes on the delegate, in order; bp and opt
\* are what the delegate does when called ([raised, ret] and [raised])
LearnCalls(s, grad_arr, bp, opt) ==
    <<[fn |-> "back_propagation", args |-> <<LastPosition(grad_arr)>>]>>
    \o (IF bp.raised THEN <<>>
        ELSE <<[fn |-> "optimize", args |-> OptimizeArgs(bp.ret, s.learning_rate)]>>)

LearnRaised(bp, opt) ==
    IF bp.raised \/ opt.raised THEN "DelegateError" ELSE ""

\* learn that records a loss on the instance
LearnEffectRecordsLoss(s, grad_arr, bp, opt) ==
    [self |-> [s EXCEPT !.loss_list = <<0>>],
     calls |-> LearnCalls(s, grad_arr, bp, opt),
     raised |-> LearnRaised(bp, opt)]

\* lines 113-129: learn(grad_arr) on instance s
LearnEffect(s, grad_arr, bp, opt) ==
    [self |-> s,
     calls |-> LearnCalls(s, grad_arr, bp, opt),
     raised |-> LearnRaised(bp, opt)]

\* ------------------------------------------------------------------ state
VARIABLES
    logger,   \* the process-wide logging.getLogger("pydbm"): level and handlers
    self,     \* the instance in use: {} before the first successful construction
    calls,    \* the calls the delegate received during the latest operation
    last,     \* the latest operation: its input, what it raised, what it returned
    input,    \* the call a data run is to make (op = "none": nothing scripted)
    history   \* the verbose_mode argument of every constructor call so far

vars == <<logger, self, calls, last, input, history>>

NoInput == [op |-> "none"]

\* the record of an operation that handled no tensor
Plain(op, raised) ==
    [op |-> op, raised |-> raised, arg |-> <<>>, raw |-> <<>>,
     arr |-> <<>>, arr_form |-> "", ret |-> <<>>, ret_form |-> "", same |-> FALSE,
     bp |-> <<>>, verbose |-> FALSE, ctl |-> ""]

\* ----------------------------------------------------------------- inputs
NormModes == {"z_score", "min_max", "tanh", "none"}

LearningRates == {learning_rate_default, 500}

SeqLens == {seq_len_default, 4}

Vals == {-1, 0, 1, 30}

GradVals == {1, 2}

Shapes ==
    {sh \in (1..MaxBatch) \X (1..MaxSeq) \X (1..MaxFeat) : sh[1] * sh[2] * sh[3] <= MaxElems}

TensorsOf(V) == UNION {[1..sh[1] -> [1..sh[2] -> [1..sh[3] -> V]]] : sh \in Shapes}

\* the tensor of shape (1, 4, 2) of the example scenario
ExampleTensor == << << <<0, 10>>, <<2, 8>>, <<4, 6>>, <<6, 4>> >> >>

InferenceOutputs == TensorsOf(Vals) \cup {ExampleTensor}

GradArrs == TensorsOf(GradVals)

NoiseSamples == { << << <<0>> >> >>, << << <<1, 0>> >> >> }

\* what back_propagation may do: raise, or return its three results
BpOutcomes ==
    {[raised |-> TRUE, ret |-> <<>>]}
    \cup {[raised |-> FALSE, ret |-> r] : r \in {<<"dg1", "ed1", "eg1">>, <<"dg2", "ed2", "eg2">>}}

OptOutcomes == {[raised |-> r] : r \in BOOLEAN}

\* what inference may do: raise, or return a tensor
InfOutcomes(outs) ==
    {[raised |-> TRUE, out |-> <<>>]} \cup {[raised |-> FALSE, out |-> a] : a \in outs}

\* the small tensors of the lifecycle runs
FewTensors == { << << <<1>> >> >>, << << <<1, 30>>, <<0, 0>> >> >> }

FewGrads == { << << <<1>>, <<2>> >> >>, << << <<1, 2>>, <<2, 1>> >>, << <<2, 2>>, <<1, 1>> >> >> }

\* ----------------------------------------------------------------- steps
\* lines 77-98: draw() on instance s; obs is what the noise sampler generates
\* and inf what the delegate's inference does when called
DrawStep(s, obs, inf) ==
    /\ self' = self
    /\ IF ~s.noise_sampler
       THEN /\ calls' = <<>>
            /\ last' = Plain("draw", "AttributeError")
       ELSE /\ calls' = <<[fn |-> "inference", args |-> <<obs>>]>>
            /\ IF inf.raised
               THEN last' = [Plain("draw", "DelegateError") EXCEPT !.arg = obs]
               ELSE last' = [Plain("draw", "") EXCEPT
                                !.arg = obs,
                                !.raw = inf.out,
                                !.arr = DrawBody(s.norm_mode, inf.out).arr,
                                !.arr_form = DrawBody(s.norm_mode, inf.out).arr_form,
                                !.ret = DrawBody(s.norm_mode, inf.out).ret,
                                !.ret_form = DrawBody(s.norm_mode, inf.out).ret_form,
                                !.same = DrawBody(s.norm_mode, inf.out).same]

\* lines 100-111: inference(observed_arr) on instance s
InferenceStep(s, observed_arr, inf) ==
    /\ self' = self
    /\ calls' = <<[fn |-> "inference", args |-> <<observed_arr>>]>>
    /\ IF inf.raised
       THEN last' = [Plain("inference", "DelegateError") EXCEPT !.arg = observed_arr]
       ELSE last' = [Plain("inference", "") EXCEPT
                        !.arg = observed_arr,
                        !.raw = inf.out,
                        !.arr = inf.out,
                        !.arr_form = "raw",
                        !.ret = inf.out,
                        !.ret_form = "raw",
                        !.same = TRUE]

\* lines 113-129: learn(grad_arr) on instance s
LearnStep(s, grad_arr, bp, opt) ==
    /\ self' = {LearnEffect(s, grad_arr, bp, opt).self}
    /\ calls' = LearnEffect(s, grad_arr, bp, opt).calls
    /\ last' = [Plain("learn", LearnEffect(s, grad_arr, bp, opt).raised) EXCEPT
                   !.arg = grad_arr,
                   !.bp = bp]

\* -------------------------------------------------- the adapter's lifecycle
Init ==
    /\ logger = [level |-> "NOTSET", handlers |-> <<>>]
    /\ self = {}
    /\ calls = <<>>
    /\ last = Plain("start", "")
    /\ input = NoInput
    /\ history = <<>>

\* lines 34-75: EncoderDecoderModel(encoder_decoder_controller, seq_len,
\* learning_rate, norm_mode, verbose_mode)
Construct ==
    \E ctl \in Delegates, seq_len \in SeqLens, learning_rate \in LearningRates,
       norm_mode \in NormModes, verbose_mode \in BOOLEAN :
        /\ Len(logger.handlers) < MaxCtorCalls
        /\ logger' = LoggerAfter(logger, verbose_mode)
        /\ history' = Append(history, verbose_mode)
        /\ calls' = <<>>
        /\ IF IsInstance(ctl)
           THEN /\ self' = {NewInstance(ctl, seq_len, learning_rate, norm_mode, verbose_mode)}
                /\ last' = [Plain("__init__", "") EXCEPT
                               !.verbose = verbose_mode, !.ctl = ctl]
           ELSE /\ self' = self
                /\ last' = [Plain("__init__", "TypeError") EXCEPT
                               !.verbose = verbose_mode, !.ctl = ctl]
        /\ UNCHANGED input

\* the caller attaches a noise sampler to the instance
AttachNoiseSampler ==
    \E s \in self :
        /\ ~s.noise_sampler
        /\ self' = {[s EXCEPT !.noise_sampler = TRUE]}
        /\ calls' = <<>>
        /\ last' = Plain("attach", "")
        /\ UNCHANGED <<logger, input, history>>

Draw ==
    \E s \in self, obs \in NoiseSamples, inf \in InfOutcomes(FewTensors) :
        /\ DrawStep(s, obs, inf)
        /\ UNCHANGED <<logger, input, history>>

Inference ==
    \E s \in self, observed_arr \in FewTensors, inf \in InfOutcomes(FewTensors) :
        /\ InferenceStep(s, observed_arr, inf)
        /\ UNCHANGED <<logger, input, history>>

Learn ==
    \E s \in self, grad_arr \in FewGrads, bp \in BpOutcomes, opt \in OptOutcomes :
        /\ LearnStep(s, grad_arr, bp, opt)
        /\ UNCHANGED <<logger, input, history>>

Next == Construct \/ AttachNoiseSampler \/ Draw \/ Inference \/ Learn

Spec == Init /\ [][Next]_vars

\* ------------------------------------- one call on a constructed instance
DrawInputs ==
    {[op |-> "draw", obs |-> o, inf |-> i] :
        o \in NoiseSamples, i \in InfOutcomes(InferenceOutputs)}

LearnInputs ==
    {[op |-> "learn", grad_arr |-> g, bp |-> b, opt |-> o] :
        g \in GradArrs, b \in BpOutcomes, o \in OptOutcomes}

\* an instance constructed with verbose_mode = False whose noise sampler is
\* attached, about to receive one draw() or one learn(grad_arr)
DataInit ==
    /\ logger = LoggerAfter([level |-> "NOTSET", handlers |-> <<>>], FALSE)
    /\ history = <<FALSE>>
    /\ calls = <<>>
    /\ last = [Plain("attach", "") EXCEPT !.ctl = "EncoderDecoderController"]
    /\ \/ /\ input \in DrawInputs
          /\ \E norm_mode \in NormModes :
                self = {[NewInstance("EncoderDecoderController", seq_len_default,
                                     learning_rate_default, norm_mode, FALSE)
                         EXCEPT !.noise_sampler = TRUE]}
       \/ /\ input \in LearnInputs
          /\ \E learning_rate \in LearningRates :
                self = {[NewInstance("EncoderDecoderController", seq_len_default,
                                     learning_rate, "z_score", FALSE)
                         EXCEPT !.noise_sampler = TRUE]}

DrawInput ==
    /\ input.op = "draw"
    /\ \E s \in self : DrawStep(s, input.obs, input.inf)
    /\ input' = NoInput
    /\ UNCHANGED <<logger, history>>

LearnInput ==
    /\ input.op = "learn"
    /\ \E s \in self : LearnStep(s, input.grad_arr, input.bp, input.opt)
    /\ input' = NoInput
    /\ UNCHANGED <<logger, history>>

DataNext == DrawInput \/ LearnInput

DataSpec == DataInit /\ [][DataNext]_vars

\* ---------------------------------------------------------------- claims
TheInstance == CHOOSE s \in self : TRUE

DrewOk == last.op = "draw" /\ last.raised = ""

Features(t) == Len(t[1][1])

SliceIndices(t) == (1..Len(t)) \X (1..Len(t[1]))

NonConstant(v) == \E j, k \in 1..Len(v) : v[j] # v[k]

RECURSIVE SumInt(_, _)
SumInt(v, k) == IF k = 0 THEN 0 ELSE SumInt(v, k - 1) + v[k]

SameShape(a, b) ==
    /\ Len(a) = Len(b)
    /\ \A i \in 1..Len(b) :
        /\ Len(a[i]) = Len(b[i])
        /\ \A seq \in 1..Len(b[i]) : Len(a[i][seq]) = Len(b[i][seq])

\* the z-score z is the integer k
ZEqualsInt(z, k) ==
    /\ z.v[1] > 0
    /\ z.v[2] > 0
    /\ Sign(z.c[1]) = Sign(k)
    /\ QMul(z.c, z.c) = QMul(FromInt(k * k), z.v)

\* a tensor written in the given form holds the same numbers as the integer
\* tensor raw
SameAsRaw(t, form, raw) ==
    /\ form \in {"raw", "quotient", "zscore", "tanh"}
    /\ SameShape(t, raw)
    /\ IF form = "raw" THEN t = raw
       ELSE \A i \in 1..Len(raw) : \A seq \in 1..Len(raw[i]) :
              \A k \in 1..Len(raw[i][seq]) :
                IF form = "quotient" THEN t[i][seq][k] = FromInt(raw[i][seq][k])
                ELSE IF form = "zscore" THEN ZEqualsInt(t[i][seq][k], raw[i][seq][k])
                ELSE t[i][seq][k].exact /\ t[i][seq][k].val = raw[i][seq][k]

\* C1: learn(grad_arr) hands back_propagation exactly one argument, the
\* [batch, feature] array whose element [b, f] is grad_arr[b, seq - 1, f], the
\* value at the last sequence position, and nothing else of grad_arr.
C1_LearnPassesLastPosition ==
    last.op = "learn" =>
        /\ Len(calls) >= 1
        /\ calls[1].fn = "back_propagation"
        /\ Len(calls[1].args) = 1
        /\ Len(calls[1].args[1]) = Len(last.arg)
        /\ \A b \in 1..Len(last.arg) :
            /\ Len(calls[1].args[1][b]) = Len(last.arg[b][1])
            /\ \A f \in 1..Len(last.arg[b][1]) :
                calls[1].args[1][b][f] = last.arg[b][Len(last.arg[b])][f]

C1_Witness ==
    /\ last.op = "learn"
    /\ Len(last.arg) = 2
    /\ Len(last.arg[1]) = 2
    /\ last.arg[1][1] # last.arg[1][2]
    /\ calls[1].args[1][2] = last.arg[2][2]

\* C2: a constructor call whose delegate lacks the capability set (inference,
\* back_propagation, optimize) raises TypeError, leaves the instance in use as
\* it was (no instance is produced) and makes no call on the delegate.
C2_BadDelegateRejected ==
    [][(Len(history') > Len(history) /\ ~HasCapability(last'.ctl)) =>
          /\ last'.op = "__init__"
          /\ last'.raised = "TypeError"
          /\ self' = self
          /\ calls' = <<>>]_vars

C2_Witness ==
    /\ last.op = "__init__"
    /\ last.ctl = "object"
    /\ last.raised = "TypeError"
    /\ self # {}
    /\ calls = <<>>

\* C3: learn calls back_propagation once and then, if it returned, optimize
\* once with (decoder gradients, encoder gradients, the instance's learning
\* rate, 1); if back_propagation raised, optimize is not called, nothing is
\* called again and the failure reaches the caller.
C3_LearnCallOrder ==
    last.op = "learn" =>
        /\ Len(calls) >= 1
        /\ calls[1].fn = "back_propagation"
        /\ IF last.bp.raised
           THEN /\ Len(calls) = 1
                /\ last.raised = "DelegateError"
           ELSE /\ Len(calls) = 2
                /\ calls[2].fn = "optimize"
                /\ calls[2].args =
                      <<last.bp.ret[1], last.bp.ret[3], TheInstance.learning_rate, 1>>

C3_Witness ==
    /\ last.op = "learn"
    /\ ~last.bp.raised
    /\ last.raised = ""
    /\ TheInstance.learning_rate = 500
    /\ calls[2].args = <<"dg2", "eg2", 500, 1>>

\* C4: when the tensor the delegate's inference returned has feature dimension
\* 1, draw() returns that tensor, every element equal to the raw inference
\* output, in every normalization mode.
C4_SingleFeatureUnchanged ==
    (DrewOk /\ Features(last.raw) = 1) =>
        /\ last.same
        /\ last.ret_form = "raw"
        /\ last.ret = last.raw
        /\ last.arr_form = "raw"
        /\ last.arr = last.raw

C4_Witness ==
    /\ DrewOk
    /\ Features(last.raw) = 1
    /\ TheInstance.norm_mode = "z_score"
    /\ Len(last.raw) = 2
    /\ Len(last.raw[1]) = 2
    /\ last.ret = last.raw

\* the slice y is the min-max normalisation of the non-constant integer
\* slice x, from x's own minimum and maximum
MinMaxSliceOk(x, y) ==
    /\ Len(y) = Len(x)
    /\ \A k \in 1..Len(x) :
        /\ y[k][2] > 0
        /\ y[k][1] * (SliceMax(x) - SliceMin(x)) = (x[k] - SliceMin(x)) * y[k][2]
        /\ 0 <= y[k][1]
        /\ y[k][1] <= y[k][2]
    /\ \E k \in 1..Len(x) : y[k] = <<0, 1>>
    /\ \E k \in 1..Len(x) : y[k] = <<1, 1>>

\* C5: in min_max mode with feature dimension > 1, every non-constant slice of
\* the raw inference output comes back as (x - min) / (max - min) of that slice
\* alone, every value in [0, 1], the minimum exactly 0 and the maximum exactly
\* 1; [0, 10] becomes [0, 1] and [6, 4] becomes [1, 0].
C5_MinMaxSlices ==
    (DrewOk /\ TheInstance.norm_mode = "min_max" /\ Features(last.raw) > 1) =>
        /\ last.ret_form = "quotient"
        /\ SameShape(last.ret, last.raw)
        /\ \A ix \in SliceIndices(last.raw) :
            LET x == last.raw[ix[1]][ix[2]]
                y == last.ret[ix[1]][ix[2]]
            IN  /\ NonConstant(x) => MinMaxSliceOk(x, y)
                /\ x = <<0, 10>> => y = <<FromInt(0), FromInt(1)>>
                /\ x = <<6, 4>> => y = <<FromInt(1), FromInt(0)>>

C5_Witness ==
    /\ DrewOk
    /\ TheInstance.norm_mode = "min_max"
    /\ last.raw = ExampleTensor
    /\ last.ret[1][4] = <<FromInt(1), FromInt(0)>>

\* the slice y is the z-score of the non-constant integer slice x: each value
\* is (x[k] - mean) / sqrt(variance) for x's own mean and population variance,
\* and y has mean 0 and population variance 1
ZScoreSliceOk(x, y) ==
    LET n == Len(x)
        d == [k \in 1..n |-> n * x[k] - SumInt(x, n)]
        c == [k \in 1..n |-> y[k].c]
        m == QMean(c)
        dev == [k \in 1..n |-> QMul(QSub(c[k], m), QSub(c[k], m))]
    IN  /\ Len(y) = n
        /\ \A k \in 1..n :
            /\ y[k].c = Quot(d[k], n)
            /\ y[k].v = Quot(SumInt([j \in 1..n |-> d[j] * d[j]], n), n * n * n)
            /\ y[k].v[1] > 0
        /\ QSum(c, n) = FromInt(0)
        /\ QDiv(QMean(dev), y[1].v) = FromInt(1)

\* C6: in z_score mode with feature dimension > 1, every non-constant slice of
\* the raw inference output comes back with mean 0 and population standard
\* deviation 1, from that slice's own mean and standard deviation; each slice
\* of [[[0,10],[2,8],[4,6],[6,4]]] becomes -1 at its smaller and +1 at its
\* larger value.
C6_ZScoreSlices ==
    (DrewOk /\ TheInstance.norm_mode = "z_score" /\ Features(last.raw) > 1) =>
        /\ last.ret_form = "zscore"
        /\ SameShape(last.ret, last.raw)
        /\ \A ix \in SliceIndices(last.raw) :
            LET x == last.raw[ix[1]][ix[2]]
                y == last.ret[ix[1]][ix[2]]
            IN  /\ NonConstant(x) => ZScoreSliceOk(x, y)
                /\ x \in {<<0, 10>>, <<2, 8>>, <<4, 6>>, <<6, 4>>} =>
                      \A k \in 1..2 :
                          ZEqualsInt(y[k], IF x[k] = SliceMin(x) THEN -1 ELSE 1)

C6_Witness ==
    /\ DrewOk
    /\ TheInstance.norm_mode = "z_score"
    /\ last.raw = ExampleTensor
    /\ ZEqualsInt(last.ret[1][4][1], 1)
    /\ ZEqualsInt(last.ret[1][4][2], -1)

\* a tanh value lies strictly between -1 and 1
InOpenUnit(t) == ~t.exact \/ (-1 < t.val /\ t.val < 1)

\* a tanh value lies in [-1, 1]
InClosedUnit(t) == ~t.exact \/ (-1 <= t.val /\ t.val <= 1)

TanhCase == DrewOk /\ TheInstance.norm_mode = "tanh" /\ Features(last.raw) > 1

\* C7 as stated: in tanh mode with feature dimension > 1 every element of the
\* output is tanh of the raw value at the same index and lies strictly
\* between -1 and 1.
C7_TanhStrictlyInside ==
    TanhCase =>
        /\ last.ret_form = "tanh"
        /\ SameShape(last.ret, last.raw)
        /\ \A i \in 1..Len(last.raw) : \A seq \in 1..Len(last.raw[i]) :
            \A k \in 1..Len(last.raw[i][seq]) :
                /\ last.ret[i][seq][k] = Tanh(last.raw[i][seq][k])
                /\ InOpenUnit(last.ret[i][seq][k])

\* C7: in tanh mode with feature dimension > 1 every element of the output is
\* the double tanh of the raw value at the same index, whatever the rest of
\* its slice holds, and lies in [-1, 1]: strictly inside while the raw value
\* is below the saturation of the double tanh in magnitude, exactly 1 or -1
\* from there on.
C7_TanhElementwise ==
    TanhCase =>
        /\ last.ret_form = "tanh"
        /\ SameShape(last.ret, last.raw)
        /\ \A i \in 1..Len(last.raw) : \A seq \in 1..Len(last.raw[i]) :
            \A k \in 1..Len(last.raw[i][seq]) :
                LET x == last.raw[i][seq][k]
                    t == last.ret[i][seq][k]
                IN  /\ t = Tanh(x)
                    /\ InClosedUnit(t)
                    /\ Abs(x) < TanhSaturation => InOpenUnit(t)
                    /\ Abs(x) >= TanhSaturation => (t.exact /\ t.val = Sign(x))

C7_Witness ==
    /\ TanhCase
    /\ last.raw = << << <<1, 30>>, <<1, -1>> >> >>
    /\ last.ret[1][1][1] = last.ret[1][2][1]
    /\ last.ret[1][1][2] = [exact |-> TRUE, val |-> 1]

\* C8: draw, inference and learn leave every field of the instance as the
\* constructor set it, and the loss list is always empty.
C8_FieldsNeverWritten ==
    [][/\ \A s \in self' : s.loss_list = <<>>
       /\ last'.op \in {"draw", "inference", "learn"} =>
            /\ self' = self
            /\ \A s \in self : \A t \in self' : Config(t) = Config(s)]_vars

C8_Witness ==
    /\ last.op = "learn"
    /\ last.raised = ""
    /\ self # {}
    /\ TheInstance.learning_rate = 500
    /\ TheInstance.verbose_mode

\* C9: after any constructor calls the logger's level is the one the latest
\* call selected, DEBUG for verbose_mode True and ERROR otherwise, and no
\* other operation moves it.
C9_LoggerLevel ==
    Len(history) > 0 =>
        /\ logger.level \in {"DEBUG", "ERROR"}
        /\ logger.level = (IF history[Len(history)] THEN "DEBUG" ELSE "ERROR")

C9_Witness ==
    /\ Len(history) = 2
    /\ history[1]
    /\ ~history[2]
    /\ logger.level = "ERROR"
    /\ last.op = "draw"

InPlaceCase ==
    Features(last.raw) > 1 /\ TheInstance.norm_mode \in {"z_score", "min_max"}

Changed == ~SameAsRaw(last.arr, last.arr_form, last.raw)

\* the integer slice x already equals its own normalisation
AlreadyNormalised(x, norm_mode) ==
    IF norm_mode = "min_max"
    THEN SliceMin(x) = 0 /\ SliceMax(x) = 1
    ELSE /\ SumInt(x, Len(x)) = 0
         /\ SumInt([k \in 1..Len(x) |-> x[k] * x[k]], Len(x)) = Len(x)

\* C10 as stated: draw() changes the contents of the tensor the delegate
\* returned exactly when the feature dimension is > 1 and the mode is z_score
\* or min_max.
C10_ChangedExactlyInPlace == DrewOk => (Changed <=> InPlaceCase)

\* C10: with feature dimension > 1 in z_score or min_max mode draw() writes
\* every slice's normalisation into the tensor the delegate returned and
\* returns that same object, so the contents change unless every slice
\* already equals its own normalisation; in every other case the contents of
\* the delegate's tensor are as before.
C10_OverwritesOnlyInPlace ==
    DrewOk =>
        IF InPlaceCase
        THEN /\ last.same
             /\ last.arr = last.ret
             /\ last.arr_form = last.ret_form
             /\ last.arr_form = (IF TheInstance.norm_mode = "z_score"
                                 THEN "zscore" ELSE "quotient")
             /\ Changed <=>
                   \E ix \in SliceIndices(last.raw) :
                       ~AlreadyNormalised(last.raw[ix[1]][ix[2]], TheInstance.norm_mode)
        ELSE ~Changed

C10_Witness ==
    /\ DrewOk
    /\ TheInstance.norm_mode = "min_max"
    /\ last.raw = << << <<0, 1>>, <<1, 0>> >> >>
    /\ last.same
    /\ ~Changed

====
